---- MODULE Spec2Model ----
(***************************************************************************)
(* Model of the crypto ETL pipeline: etl.py (fetch with retry, transform,  *)
(* validate, load, the lineage and Slack decorators, the pipeline facade), *)
(* schema.py (the snapshot table) and api.py (the reader of the table).    *)
(***************************************************************************)
EXTENDS FiniteSets, Integers, Sequences, TLC

\* ------------------------------------------------------------------------
\* Bounds of the model
\* ------------------------------------------------------------------------
MaxRows == 2          \* rows of a cleaned artifact handed to load
MaxCalls == 2         \* stage invocations in one behaviour

\* ------------------------------------------------------------------------
\* Cell values.  Numeric columns hold naturals, NaN (a missing value) or
\* BadNum (a text that float() rejects); text columns hold strings or
\* NullStr.  DbNull is the SQL NULL that load writes for a missing optional.
\* ------------------------------------------------------------------------
NaN == -1
BadNum == -2
DbNull == -3
NullStr == "<null>"
NoError == "-"

Ids == {"bitcoin", "ethereum"}
Prices == {1, 2}

VARIABLES
    committed,    \* rows of crypto_top_50 visible to every other session
    session,      \* the loading session's uncommitted view of the table
    pc,           \* position of the load in progress
    df,           \* the DataFrame read from csv_path
    records,      \* the CryptoData objects built from df
    exc,          \* exception raised by the body of load, or NoError
    prior,        \* table content when the load was called
    lastLoaded,   \* rows written by the last load_to_postgres that returned
    didReplace,   \* the invocation that finished last returned from load_to_postgres
    observed,     \* last response of get_all_cryptos
    lineage,      \* lineage.log, one entry per line
    slackPosts,   \* posts made to the Slack webhook
    webhook,      \* SLACK_WEBHOOK_URL is configured
    result,       \* what the caller of the last stage invocation received
    calls,        \* stage invocations so far
    lastStep,     \* the operation invoked last
    bodyOut,      \* what the body of that operation did
    logBefore,    \* lineage.log when that operation was invoked
    postsBefore,  \* the Slack posts made before it was invoked
    fpc,          \* position of fetch_top_50_cryptos: idle, attempt, done
    outcomes,     \* outcome of every attempt of the fetch in progress
    fres,         \* what fetch_top_50_cryptos gave its caller
    jsonErrIsRequestException,  \* the installed requests raises its own JSONDecodeError
    vdf,          \* the DataFrame handed to validate_data
    vissues,      \* the issues list it built
    vwarned,      \* the columns it only warned about
    vout,         \* whether it returned or raised
    epc,          \* how far the run over one raw snapshot has come
    raw,          \* the raw snapshot given to transform
    cleaned,      \* the DataFrame transform_crypto_data returned
    csv,          \* the cleaned artifact as pd.read_csv reads it back
    tstate,       \* state of every task instance of the DAG run
    tries,        \* try number of every task
    started,      \* the tasks in the order their tries started
    artifactValid, \* crypto_top_50.csv of this run passes validate_data
    anomDf,       \* the DataFrame anomalies read from csv_path
    anomCoin,     \* the coin_name it was called with
    anomOut,      \* what detect_anomalies returned to it
    anomFiles,    \* the coins whose <coin>_anomalies.csv exists
    filesBefore,  \* those files before the invocation
    delays,       \* the sleeps between the attempts of the fetch in progress
    expFromZero,  \* the installed tenacity computes 2 ** (attempt_number - 1)
    tpc,          \* transform_crypto_data has not run, returned or raised
    tin,          \* the records it is given
    tout          \* the DataFrame it returned

storeVars == <<committed, session, pc, df, records, exc, prior, lastLoaded, didReplace, observed>>
wrapVars == <<lineage, slackPosts, webhook, result, calls, lastStep, bodyOut, logBefore, postsBefore>>
fetchVars == <<fpc, outcomes, fres, jsonErrIsRequestException>>
validateVars == <<vdf, vissues, vwarned, vout>>
runVars == <<epc, raw, cleaned, csv>>
dagVars == <<tstate, tries, started, artifactValid>>
anomVars == <<anomDf, anomCoin, anomOut, anomFiles, filesBefore>>
backoffVars == <<delays, expFromZero>>
trVars == <<tpc, tin, tout>>
vars == <<storeVars, wrapVars, fetchVars, validateVars, runVars, dagVars, anomVars, backoffVars, trVars>>

\* what the actions of one component leave alone
outsidePipeline == <<fetchVars, validateVars, runVars, dagVars, anomVars, backoffVars, trVars>>
outsideFetch == <<storeVars, wrapVars, validateVars, runVars, dagVars, anomVars, trVars>>
outsideStage == <<storeVars, fetchVars, validateVars, runVars, dagVars, anomVars, backoffVars, trVars>>
outsideAnomalies == <<storeVars, fetchVars, validateVars, runVars, dagVars, backoffVars, trVars>>
outsideDag == <<storeVars, wrapVars, fetchVars, validateVars, runVars, anomVars, backoffVars, trVars>>
outsideValidate == <<storeVars, wrapVars, fetchVars, runVars, dagVars, anomVars, backoffVars, trVars>>

\* ------------------------------------------------------------------------
\* schema.py: a row of crypto_top_50, and a row of the cleaned CSV artifact
\* ------------------------------------------------------------------------
CryptoData(id, symbol, name, price_usd, market_cap, volume_24h, high_24h, low_24h, price_change_24h_pct, circulating_supply, max_supply, last_updated) ==
    [id |-> id, symbol |-> symbol, name |-> name, price_usd |-> price_usd,
     market_cap |-> market_cap, volume_24h |-> volume_24h, high_24h |-> high_24h,
     low_24h |-> low_24h, price_change_24h_pct |-> price_change_24h_pct,
     circulating_supply |-> circulating_supply, max_supply |-> max_supply,
     last_updated |-> last_updated]

\* pd.isnull on a cell of a numeric / of a text column
IsNullNum(x) == x = NaN
IsNullStr(s) == s = NullStr

\* str(x) of a text cell: a missing cell is the float nan, whose str is "nan"
StrOf(s) == IF IsNullStr(s) THEN "nan" ELSE s

\* float(x) raises ValueError on a text that is no number
FloatFails(x) == x = BadNum

\* float(x) if not pd.isnull(x) else None
OptFloat(x) == IF IsNullNum(x) THEN DbNull ELSE x
OptStr(s) == IF IsNullStr(s) THEN NullStr ELSE s

NumericColumns == {"price_usd", "market_cap", "volume_24h", "high_24h", "low_24h",
                   "price_change_24h_pct", "circulating_supply", "max_supply"}

\* the row of df cannot be converted: some float() call raises
RowFails(row) == \E c \in NumericColumns : FloatFails(row[c])

\* the CryptoData object built from one row of df (etl.py 259-288)
ToRecord(row) ==
    CryptoData(StrOf(row.id), StrOf(row.symbol), StrOf(row.name), row.price_usd,
               OptFloat(row.market_cap), OptFloat(row.volume_24h), OptFloat(row.high_24h),
               OptFloat(row.low_24h), OptFloat(row.price_change_24h_pct),
               OptFloat(row.circulating_supply), OptFloat(row.max_supply),
               OptStr(row.last_updated))

\* a row of the cleaned artifact as pd.read_csv returns it
CsvRow(id, price, maxSupply) ==
    [id |-> id, symbol |-> id, name |-> id, price_usd |-> price,
     market_cap |-> 10, volume_24h |-> 5, high_24h |-> 3, low_24h |-> 1,
     price_change_24h_pct |-> 0, circulating_supply |-> 7, max_supply |-> maxSupply,
     last_updated |-> "2024-01-01 00:00:00+00:00",
     rolling_avg_7d |-> <<price, 1>>, daily_price_change_pct |-> <<0, 0>>]

CsvRows == {CsvRow(i, p, 21) : i \in Ids, p \in Prices} \cup
           {CsvRow("bitcoin", BadNum, 21), CsvRow("ethereum", 1, NaN)}

SeqsUpTo(S, n) == UNION {[1..k -> S] : k \in 0..n}

\* the artifacts a caller can pass to load
CsvTables == SeqsUpTo(CsvRows, MaxRows)

RowSet(t) == {t[i] : i \in 1..Len(t)}
RecordsOf(t) == [i \in 1..Len(t) |-> ToRecord(t[i])]
DistinctIds(rs) == \A i, j \in 1..Len(rs) : rs[i].id = rs[j].id => i = j

\* ------------------------------------------------------------------------
\* Outcomes of a call: it returns, or it raises the named exception
\* ------------------------------------------------------------------------
Returned == [kind |-> "return", err |-> NoError]
Raised(e) == [kind |-> "raise", err |-> e]
NoCall == [kind |-> "none", err |-> NoError]

\* ------------------------------------------------------------------------
\* etl.py 35-58: notify_slack and the slack_notify_on_error decorator
\* ------------------------------------------------------------------------
SlackMessage(fn, e) == [fn |-> fn, err |-> e]

\* posts made after notify_slack(message); postOk: requests.post did not raise.
\* A failed post is logged and swallowed.
notify_slack(posts, message, postOk) ==
    IF webhook THEN Append(posts, [text |-> message, delivered |-> postOk]) ELSE posts

\* inner: outcome of the decorated function.  Gives the posts and the
\* outcome the caller of the wrapper receives.
slack_notify_on_error(fn, posts, inner, postOk) ==
    IF inner.kind = "raise"
    THEN [posts |-> notify_slack(posts, SlackMessage(fn, inner.err), postOk), out |-> inner]
    ELSE [posts |-> posts, out |-> inner]

\* ------------------------------------------------------------------------
\* etl.py 362-392: log_lineage and the lineage_logger decorator
\* ------------------------------------------------------------------------
LineageEntry(step, status, error) == [step |-> step, status |-> status, error |-> error]

\* open(LINEAGE_LOG, "a") / f.write raise OSError when the log cannot be written
LineageWriteError == "OSError: lineage.log"

\* the log opened with mode "w": the entry replaces the file
log_lineage_Truncate(log, step, status, error, writeOk) ==
    IF writeOk THEN <<LineageEntry(step, status, error)>> ELSE log

\* the log after log_lineage(step, status, extra); writeOk: the append worked
log_lineage(log, step, status, error, writeOk) ==
    IF writeOk THEN Append(log, LineageEntry(step, status, error)) ELSE log

\* body: outcome of func(*args).  w1, w2: whether the first and the second
\* log_lineage call of this invocation can write the file.  The success
\* record is written inside the try block, so its failure is handled by
\* the except clause, which records an error and re-raises.
lineage_logger(step, log, body, w1, w2) ==
    IF body.kind = "return"
    THEN IF w1
         THEN [log |-> log_lineage(log, step, "success", NoError, TRUE), out |-> body]
         ELSE [log |-> log_lineage(log, step, "error", LineageWriteError, w2),
               out |-> Raised(LineageWriteError)]
    ELSE IF w1
         THEN [log |-> log_lineage(log, step, "error", body.err, TRUE), out |-> body]
         ELSE [log |-> log, out |-> Raised(LineageWriteError)]

\* @slack_notify_on_error @lineage_logger(step) def step(...): the decorated
\* stage, given the outcome of its body
Stage(step, body, w1, w2, postOk) ==
    LET ll == lineage_logger(step, lineage, body, w1, w2)
        sn == slack_notify_on_error(step, slackPosts, ll.out, postOk)
    IN  /\ lineage' = ll.log
        /\ slackPosts' = sn.posts
        /\ result' = sn.out
        /\ lastStep' = step
        /\ bodyOut' = body
        /\ logBefore' = lineage
        /\ postsBefore' = slackPosts
        /\ UNCHANGED webhook

\* ------------------------------------------------------------------------
\* etl.py 428-450 and 241-300: CryptoETLPipeline.load and load_to_postgres
\* ------------------------------------------------------------------------
\* load(csv_path): credentials check, pd.read_csv, create_engine/create_all,
\* Session().  credsOk: all POSTGRES_* variables are set; fileOk: csv_path
\* can be read; dbUp: the database answers create_all.
LoadCallOn(tables) ==
    /\ pc = "idle"
    /\ calls < MaxCalls
    /\ \E t \in tables, credsOk \in BOOLEAN, fileOk \in BOOLEAN, dbUp \in BOOLEAN :
         /\ prior' = committed
         /\ didReplace' = FALSE
         /\ records' = <<>>
         /\ IF ~credsOk
            THEN /\ pc' = "returned"
                 /\ exc' = NoError
                 /\ df' = <<>>
                 /\ UNCHANGED session
            ELSE IF ~fileOk
            THEN /\ pc' = "raised"
                 /\ exc' = "FileNotFoundError"
                 /\ df' = <<>>
                 /\ UNCHANGED session
            ELSE IF ~dbUp
            THEN /\ pc' = "raised"
                 /\ exc' = "OperationalError"
                 /\ df' = t
                 /\ UNCHANGED session
            ELSE /\ pc' = "delete"
                 /\ exc' = NoError
                 /\ df' = t
                 /\ session' = committed
    /\ calls' = calls + 1
    /\ UNCHANGED <<committed, lastLoaded, observed, lineage, slackPosts, webhook, result>>
    /\ UNCHANGED <<lastStep, bodyOut, logBefore, postsBefore>>

LoadCall ==
    /\ LoadCallOn(CsvTables)
    /\ UNCHANGED outsidePipeline

\* except Exception: session.rollback(); raise
Rollback(e) ==
    /\ session' = committed
    /\ exc' = e
    /\ pc' = "raised"

\* the delete that leaves the rows in place
SessionDelete_Skipped ==
    /\ pc = "delete"
    /\ \E ok \in BOOLEAN :
         IF ok
         THEN /\ pc' = "commit1"
              /\ UNCHANGED <<session, exc>>
         ELSE Rollback("OperationalError")
    /\ UNCHANGED <<committed, df, records, prior, lastLoaded, didReplace, observed, wrapVars>>
    /\ UNCHANGED outsidePipeline

\* session.query(CryptoData).delete()
SessionDelete ==
    /\ pc = "delete"
    /\ \E ok \in BOOLEAN :
         IF ok
         THEN /\ session' = {}
              /\ pc' = "commit1"
              /\ UNCHANGED exc
         ELSE Rollback("OperationalError")
    /\ UNCHANGED <<committed, df, records, prior, lastLoaded, didReplace, observed, wrapVars>>
    /\ UNCHANGED outsidePipeline

\* session.commit() after the delete (etl.py 255)
CommitDelete ==
    /\ pc = "commit1"
    /\ \E ok \in BOOLEAN :
         IF ok
         THEN /\ committed' = session
              /\ pc' = "build"
              /\ UNCHANGED <<session, exc>>
         ELSE /\ Rollback("OperationalError")
              /\ UNCHANGED committed
    /\ UNCHANGED <<df, records, prior, lastLoaded, didReplace, observed, wrapVars>>
    /\ UNCHANGED outsidePipeline

\* for _, row in df.iterrows(): records.append(CryptoData(...))
BuildRecords ==
    /\ pc = "build"
    /\ IF \E i \in 1..Len(df) : RowFails(df[i])
       THEN /\ Rollback("ValueError")
            /\ UNCHANGED records
       ELSE /\ records' = RecordsOf(df)
            /\ pc' = "insert"
            /\ UNCHANGED <<session, exc>>
    /\ UNCHANGED <<committed, df, prior, lastLoaded, didReplace, observed, wrapVars>>
    /\ UNCHANGED outsidePipeline

\* session.bulk_save_objects(records): id is the primary key
BulkSaveObjects ==
    /\ pc = "insert"
    /\ \E ok \in BOOLEAN :
         IF ~DistinctIds(records) \/ \E r \in RowSet(records), o \in session : r.id = o.id
         THEN Rollback("IntegrityError")
         ELSE IF ~ok
         THEN Rollback("OperationalError")
         ELSE /\ session' = session \cup RowSet(records)
              /\ pc' = "commit2"
              /\ UNCHANGED exc
    /\ UNCHANGED <<committed, df, records, prior, lastLoaded, didReplace, observed, wrapVars>>
    /\ UNCHANGED outsidePipeline

\* session.commit() after the insert (etl.py 291)
CommitInsert ==
    /\ pc = "commit2"
    /\ \E ok \in BOOLEAN :
         IF ok
         THEN /\ committed' = session
              /\ lastLoaded' = session
              /\ didReplace' = TRUE
              /\ pc' = "returned"
              /\ UNCHANGED <<session, exc>>
         ELSE /\ Rollback("OperationalError")
              /\ UNCHANGED <<committed, lastLoaded, didReplace>>
    /\ UNCHANGED <<df, records, prior, observed, wrapVars>>
    /\ UNCHANGED outsidePipeline

\* the body of load has finished: the decorators record and notify
LoadReturn ==
    /\ pc \in {"returned", "raised"}
    /\ \E w1 \in BOOLEAN, w2 \in BOOLEAN, postOk \in BOOLEAN :
         Stage("load", IF pc = "raised" THEN Raised(exc) ELSE Returned, w1, w2, postOk)
    /\ pc' = "idle"
    /\ UNCHANGED calls
    /\ UNCHANGED <<committed, session, df, records, exc, prior, lastLoaded, didReplace, observed>>
    /\ UNCHANGED outsidePipeline

\* ------------------------------------------------------------------------
\* api.py 51-77: get_all_cryptos, a reader in another session
\* ------------------------------------------------------------------------
get_all_cryptos ==
    /\ \E ok \in BOOLEAN :
         observed' = IF ok THEN [status |-> 200, body |-> committed]
                          ELSE [status |-> 500, body |-> {}]
    /\ UNCHANGED <<committed, session, pc, df, records, exc, prior, lastLoaded, didReplace, wrapVars>>
    /\ UNCHANGED outsidePipeline

StoreInit ==
    /\ committed = {}
    /\ session = {}
    /\ pc = "idle"
    /\ df = <<>>
    /\ records = <<>>
    /\ exc = NoError
    /\ prior = {}
    /\ lastLoaded = {}
    /\ didReplace = FALSE
    /\ observed = [status |-> 200, body |-> {}]

WrapIdle ==
    /\ lineage = <<>>
    /\ slackPosts = <<>>
    /\ result = NoCall
    /\ calls = 0
    /\ lastStep = "none"
    /\ bodyOut = NoCall
    /\ logBefore = <<>>
    /\ postsBefore = <<>>

FetchIdle ==
    /\ fpc = "idle"
    /\ outcomes = <<>>
    /\ fres = NoCall

ValidateIdle ==
    /\ vdf = <<>>
    /\ vissues = <<>>
    /\ vwarned = {}
    /\ vout = NoCall

RunIdle ==
    /\ epc = "start"
    /\ raw = <<>>
    /\ cleaned = <<>>
    /\ csv = <<>>

DagIdle ==
    /\ tstate = [t \in {"extract", "transform", "validate", "load"} |-> "none"]
    /\ tries = [t \in {"extract", "transform", "validate", "load"} |-> 0]
    /\ started = <<>>
    /\ artifactValid = FALSE

AnomIdle ==
    /\ anomDf = <<>>
    /\ anomCoin = "none"
    /\ anomOut = [called |-> FALSE, found |-> FALSE, rows |-> <<>>]
    /\ anomFiles = {}
    /\ filesBefore = {}

BackoffIdle ==
    /\ delays = <<>>
    /\ expFromZero = TRUE

TrIdle ==
    /\ tpc = "in"
    /\ tin = <<>>
    /\ tout = <<>>

Init ==
    /\ StoreInit
    /\ WrapIdle
    /\ webhook \in BOOLEAN
    /\ FetchIdle
    /\ jsonErrIsRequestException = TRUE
    /\ ValidateIdle
    /\ RunIdle
    /\ DagIdle
    /\ TrIdle
    /\ BackoffIdle
    /\ AnomIdle

Next ==
    \/ LoadCall
    \/ SessionDelete
    \/ CommitDelete
    \/ BuildRecords
    \/ BulkSaveObjects
    \/ CommitInsert
    \/ LoadReturn
    \/ get_all_cryptos

Spec == Init /\ [][Next]_vars

\* ------------------------------------------------------------------------
\* Properties of the snapshot store
\* ------------------------------------------------------------------------
LoadFailed == pc = "raised"
LoadDone == pc = "idle" /\ calls > 0

\* C1: when load fails at any step, after the rollback the table still
\* holds exactly the content it had when the load was called.
C1_FailedLoadKeepsPrior == LoadFailed => committed = prior

\* C2: every successful response of the reader is the set of rows of the
\* most recent load that completed, also while a load is in progress or
\* after one has failed.
C2_ReaderSeesLastLoad ==
    [][(observed' # observed /\ observed'.status = 200) => observed'.body = lastLoaded]_vars

\* C3: after load_to_postgres returns, the table holds exactly the records
\* of df, one row per id and none of the prior rows that df does not have;
\* so a second load of the same df leaves the table as the first did.
C3_ReplaceExact ==
    didReplace =>
        /\ committed = RowSet(RecordsOf(df))
        /\ Cardinality(committed) = Len(df)
        /\ \A r, o \in committed : r.id = o.id => r = o
        /\ (prior = RowSet(RecordsOf(df)) => committed = prior)

C3_Witness ==
    /\ didReplace
    /\ pc = "returned"
    /\ Len(df) = 2
    /\ prior # {}
    /\ prior \cap committed = {}

\* C10: a load invocation that returns normally to its caller has replaced
\* the table by the rows of its artifact; otherwise it raised.
C10_NoSoftFailure ==
    (LoadDone /\ result.kind = "return") =>
        /\ didReplace
        /\ committed = RowSet(RecordsOf(df))

\* ------------------------------------------------------------------------
\* etl.py 127-149: fetch_top_50_cryptos under tenacity's @retry
\* ------------------------------------------------------------------------
MaxAttempts == 5

\* what one attempt can do: requests.get raises (ConnectionError), the
\* status is an error (HTTPError from raise_for_status), the body is not
\* JSON (response.json() raises), or the parsed body is returned
AttemptOutcomes == {"ok", "ConnectionError", "HTTPError", "JSONDecodeError"}

\* isinstance(e, requests.exceptions.RequestException).  response.json()
\* raises requests.exceptions.JSONDecodeError, a RequestException, from
\* requests 2.27 on, and the json module's ValueError before.
IsRequestException(e) ==
    \/ e \in {"ConnectionError", "HTTPError"}
    \/ e = "JSONDecodeError" /\ jsonErrIsRequestException

\* retry=retry_if_exception_type(requests.exceptions.RequestException)
retry_if_exception_type(e) == IsRequestException(e)

\* the stop that allows one attempt more
stop_after_attempt_Late(attempt_number) == attempt_number > MaxAttempts

\* stop=stop_after_attempt(5)
stop_after_attempt(attempt_number) == attempt_number >= MaxAttempts

\* wait=wait_exponential(multiplier=1, min=4, max=10)
WaitMultiplier == 1
WaitMin == 4
WaitMax == 10

Min(a, b) == IF a <= b THEN a ELSE b
Max(a, b) == IF a >= b THEN a ELSE b

\* the wait that forgets the lower limit
wait_exponential_NoMin(attempt_number) ==
    LET exp == IF expFromZero THEN 2 ^ (attempt_number - 1) ELSE 2 ^ attempt_number
    IN  Min(WaitMultiplier * exp, WaitMax)

\* the sleep after failed attempt attempt_number: multiplier * 2 ** x kept
\* between min and max, where x is attempt_number - 1 in current tenacity
\* releases and attempt_number in the older ones
wait_exponential(attempt_number) ==
    LET exp == IF expFromZero THEN 2 ^ (attempt_number - 1) ELSE 2 ^ attempt_number
    IN  Max(Max(0, WaitMin), Min(WaitMultiplier * exp, WaitMax))

FetchCall ==
    /\ fpc \in {"idle", "done"}
    /\ fpc' = "attempt"
    /\ outcomes' = <<>>
    /\ fres' = NoCall
    /\ delays' = <<>>
    /\ UNCHANGED expFromZero
    /\ UNCHANGED jsonErrIsRequestException
    /\ UNCHANGED outsideFetch

\* one execution of the function body followed by tenacity's decision
Attempt ==
    /\ fpc = "attempt"
    /\ \E o \in AttemptOutcomes :
         /\ outcomes' = Append(outcomes, o)
         /\ IF o = "ok"
            THEN /\ fpc' = "done"
                 /\ fres' = Returned
                 /\ UNCHANGED delays
            ELSE IF ~retry_if_exception_type(o)
            THEN /\ fpc' = "done"
                 /\ fres' = Raised(o)
                 /\ UNCHANGED delays
            ELSE IF stop_after_attempt(Len(outcomes) + 1)
            THEN /\ fpc' = "done"
                 /\ fres' = Raised("RetryError")
                 /\ UNCHANGED delays
            ELSE /\ fpc' = "attempt"
                 /\ delays' = Append(delays, wait_exponential(Len(outcomes) + 1))
                 /\ UNCHANGED fres
    /\ UNCHANGED expFromZero
    /\ UNCHANGED jsonErrIsRequestException
    /\ UNCHANGED outsideFetch

InitFetch ==
    /\ StoreInit
    /\ WrapIdle
    /\ webhook = FALSE
    /\ FetchIdle
    /\ jsonErrIsRequestException \in BOOLEAN
    /\ ValidateIdle
    /\ RunIdle
    /\ DagIdle
    /\ TrIdle
    /\ delays = <<>>
    /\ expFromZero \in BOOLEAN
    /\ AnomIdle

NextFetch ==
    \/ FetchCall
    \/ Attempt

SpecFetch == InitFetch /\ [][NextFetch]_vars

Transient == {"ConnectionError", "HTTPError"}

\* C4: the fetch makes at most 5 attempts; a successful attempt is the
\* last one and its response is returned; five transient failures in a
\* row end the fetch with RetryError.
C4_AtMostFiveAttempts ==
    /\ Len(outcomes) <= 5
    /\ \A i \in 1..Len(outcomes) :
         outcomes[i] = "ok" => (i = Len(outcomes) /\ fpc = "done" /\ fres = Returned)
    /\ (Len(outcomes) = 5 /\ \A i \in 1..5 : outcomes[i] \in Transient)
          => (fpc = "done" /\ fres = Raised("RetryError"))

C4_Witness ==
    /\ Len(outcomes) = 5
    /\ \A i \in 1..5 : outcomes[i] \in Transient
    /\ fres = Raised("RetryError")

\* C5: an attempt whose payload cannot be decoded is made once: no attempt
\* follows it, and its error is what the caller receives.
C5_MalformedPayloadNotRetried ==
    \A i \in 1..Len(outcomes) :
        outcomes[i] = "JSONDecodeError" =>
            (i = Len(outcomes) /\ fpc = "done" /\ fres = Raised("JSONDecodeError"))

\* ------------------------------------------------------------------------
\* etl.py 395-481: the six decorated operations of CryptoETLPipeline.  The
\* decorators see only whether func(*args, **kwargs) returns or raises.
\* ------------------------------------------------------------------------
Steps == {"extract", "transform", "load", "validate", "anomalies", "forecast"}

\* the exceptions the body of each operation lets out
BodyErrors(step) ==
    CASE step = "extract" -> {"RetryError", "PermissionError"}
      [] step = "transform" -> {"KeyError", "RetryError"}
      [] step = "load" -> {"FileNotFoundError", "OperationalError", "ValueError", "IntegrityError"}
      [] step = "validate" -> {"ValueError"}
      [] step = "anomalies" -> {"FileNotFoundError"}
      [] step = "forecast" -> {"FileNotFoundError"}

BodyOutcomes(step) == {Returned} \cup {Raised(e) : e \in BodyErrors(step)}

\* one invocation of a decorated operation
Invoke(step) ==
    /\ calls < MaxCalls
    /\ calls' = calls + 1
    /\ \E body \in BodyOutcomes(step), w1 \in BOOLEAN, w2 \in BOOLEAN, postOk \in BOOLEAN :
         Stage(step, body, w1, w2, postOk)
    /\ UNCHANGED outsideStage

extract == Invoke("extract")
transform == Invoke("transform")
load == Invoke("load")
validate == Invoke("validate")
anomalies == Invoke("anomalies")
forecast == Invoke("forecast")

InitStage ==
    /\ StoreInit
    /\ WrapIdle
    /\ webhook \in BOOLEAN
    /\ FetchIdle
    /\ jsonErrIsRequestException = TRUE
    /\ ValidateIdle
    /\ RunIdle
    /\ DagIdle
    /\ TrIdle
    /\ BackoffIdle
    /\ AnomIdle

NextStage ==
    \/ extract
    \/ transform
    \/ load
    \/ validate
    \/ anomalies
    \/ forecast

SpecStage == InitStage /\ [][NextStage]_vars

LastPost == slackPosts[Len(slackPosts)]

\* C6: when the body of an operation raises E, the invocation appends the
\* lineage entry (step, error, E), dispatches the notification of E when a
\* webhook is configured, and its caller receives E.
C6_ErrorObservedThenReraised ==
    bodyOut.kind = "raise" =>
        /\ lineage = Append(logBefore, LineageEntry(lastStep, "error", bodyOut.err))
        /\ webhook => /\ Len(slackPosts) = Len(postsBefore) + 1
                      /\ LastPost.text = SlackMessage(lastStep, bodyOut.err)
        /\ result = bodyOut

\* C7: the caller of an operation receives what the body did, whether or
\* not the lineage log could be written, and never the log's write error.
C7_LineageFailureSuppressed ==
    bodyOut.kind # "none" =>
        /\ result = bodyOut
        /\ result.err # LineageWriteError

\* ------------------------------------------------------------------------
\* etl.py 192-238: validate_data on a DataFrame read by pd.read_csv
\* ------------------------------------------------------------------------
\* the columns of the cleaned artifact, in file order
DfColumns == <<"id", "symbol", "name", "price_usd", "market_cap", "volume_24h", "high_24h",
               "low_24h", "price_change_24h_pct", "circulating_supply", "max_supply",
               "last_updated", "rolling_avg_7d", "daily_price_change_pct">>

TextColumns == {"id", "symbol", "name", "last_updated"}
DerivedColumns == {"rolling_avg_7d", "daily_price_change_pct"}

\* a derived cell is the ratio <<numerator, denominator>>; the missing one
NoRatio == <<0, 0>>

\* texts that pd.read_csv parses as numbers
NumericTexts == {"42"}

\* pd.isnull of the cell of column c
IsNullCell(c, x) ==
    IF c \in TextColumns THEN x = NullStr
    ELSE IF c \in DerivedColumns THEN x = NoRatio
    ELSE x = NaN

\* df.isnull().sum() > 0 for column c
HasNull(d, c) == \E i \in 1..Len(d) : IsNullCell(c, d[i][c])

\* the dtype pd.read_csv infers: object for a column with a text that is
\* no number and for every column of a file without rows, numeric otherwise
Dtype(d, c) ==
    IF Len(d) = 0 THEN "object"
    ELSE IF c \in TextColumns
    THEN IF \E i \in 1..Len(d) : d[i][c] # NullStr /\ d[i][c] \notin NumericTexts
         THEN "object" ELSE "float64"
    ELSE IF c \in DerivedColumns THEN "float64"
    ELSE IF \E i \in 1..Len(d) : d[i][c] = BadNum THEN "object" ELSE "float64"

is_object_dtype(t) == t = "object"
is_numeric_dtype(t) == t \in {"int64", "float64"}

\* expected_types, in dictionary order
ExpectedColumns == <<"id", "symbol", "name", "price_usd", "market_cap", "volume_24h",
                     "high_24h", "low_24h", "price_change_24h_pct", "circulating_supply",
                     "max_supply", "last_updated">>
ExpectedType(c) == IF c \in TextColumns THEN "object" ELSE "number"

Issue(kind, col) == [kind |-> kind, col |-> col]
IssuesOf(kind, cols) == [i \in 1..Len(cols) |-> Issue(kind, cols[i])]

\* issues from the missing-value loop (etl.py 199-206)
MissingIssues(d) ==
    IssuesOf("missing", SelectSeq(DfColumns, LAMBDA c : HasNull(d, c) /\ c # "max_supply"))

MissingWarnings(d) == {c \in {"max_supply"} : HasNull(d, c)}

TypeMismatch(d, c) ==
    IF ExpectedType(c) = "object" THEN ~is_object_dtype(Dtype(d, c))
    ELSE ~is_numeric_dtype(Dtype(d, c))

\* issues from the dtype loop (etl.py 222-231)
TypeIssues(d) == IssuesOf("type", SelectSeq(ExpectedColumns, LAMBDA c : TypeMismatch(d, c)))

\* the loop that stops at the first issue it finds
CollectIssues_FailFast(d) ==
    LET all == MissingIssues(d) \o TypeIssues(d)
    IN  IF all = <<>> THEN <<>> ELSE <<all[1]>>

\* the issues list at etl.py 232
CollectIssues(d) == MissingIssues(d) \o TypeIssues(d)

\* the outcome of validate_data: raise ValueError iff issues
ValidateOutcome(issues) == IF issues # <<>> THEN Raised("ValueError") ELSE Returned

\* a row of a cleaned artifact with the cells the checks look at
DfRow(id, name, price, marketCap, maxSupply, lastUpdated, pct) ==
    [id |-> id, symbol |-> "sym", name |-> name, price_usd |-> price,
     market_cap |-> marketCap, volume_24h |-> 5, high_24h |-> 3, low_24h |-> 1,
     price_change_24h_pct |-> 0, circulating_supply |-> 7, max_supply |-> maxSupply,
     last_updated |-> lastUpdated,
     rolling_avg_7d |-> <<1, 1>>, daily_price_change_pct |-> pct]

Stamp == "2024-01-01 00:00:00+00:00"

ValidateRows ==
    {DfRow("bitcoin", "Bitcoin", 1, 10, 21, Stamp, <<1, 2>>),
     DfRow("bitcoin", "Bitcoin", 1, 10, 21, Stamp, NoRatio),
     DfRow("bitcoin", "Bitcoin", NaN, 10, 21, Stamp, <<1, 2>>),
     DfRow("bitcoin", "Bitcoin", BadNum, 10, 21, Stamp, <<1, 2>>),
     DfRow("bitcoin", "Bitcoin", 1, NaN, 21, Stamp, <<1, 2>>),
     DfRow("ethereum", "Ethereum", 1, 10, NaN, Stamp, <<1, 2>>),
     DfRow("ethereum", "Ethereum", 1, 10, BadNum, Stamp, <<1, 2>>),
     DfRow("bitcoin", NullStr, 1, 10, 21, Stamp, <<1, 2>>),
     DfRow("bitcoin", "42", 1, 10, 21, Stamp, <<1, 2>>),
     DfRow("bitcoin", "Bitcoin", 1, 10, 21, NullStr, <<1, 2>>),
     DfRow(NullStr, "Bitcoin", 1, 10, 21, Stamp, <<1, 2>>),
     DfRow("ethereum", NullStr, NaN, 10, NaN, Stamp, NoRatio)}

ValidateTables == SeqsUpTo(ValidateRows, MaxRows)

validate_data ==
    /\ \E d \in ValidateTables :
         /\ vdf' = d
         /\ vissues' = CollectIssues(d)
         /\ vwarned' = MissingWarnings(d)
         /\ vout' = ValidateOutcome(CollectIssues(d))
    /\ UNCHANGED outsideValidate

InitValidate ==
    /\ StoreInit
    /\ WrapIdle
    /\ webhook = FALSE
    /\ FetchIdle
    /\ jsonErrIsRequestException = TRUE
    /\ ValidateIdle
    /\ RunIdle
    /\ DagIdle
    /\ TrIdle
    /\ BackoffIdle
    /\ AnomIdle

NextValidate == validate_data

SpecValidate == InitValidate /\ [][NextValidate]_vars

AllColumns == {DfColumns[i] : i \in 1..Len(DfColumns)}
Declared == {ExpectedColumns[i] : i \in 1..Len(ExpectedColumns)}

\* the columns the claim calls offending: a null outside max_supply, or a
\* declared column whose dtype is not the declared kind
NullOffender(d, c) == c # "max_supply" /\ \E i \in 1..Len(d) : IsNullCell(c, d[i][c])
TypeOffender(d, c) ==
    /\ c \in Declared
    /\ IF c \in TextColumns THEN Dtype(d, c) # "object" ELSE Dtype(d, c) = "object"
Offending(d) == {c \in AllColumns : NullOffender(d, c) \/ TypeOffender(d, c)}
Reported == {vissues[i].col : i \in 1..Len(vissues)}

\* C9: validate_data raises exactly when some column is offending, its
\* issues then name every offending column, and nulls in max_supply alone
\* give a warning and no failure.
C9_ValidateAggregates ==
    vout.kind # "none" =>
        /\ (vout = Raised("ValueError")) <=> (Offending(vdf) # {})
        /\ Reported = Offending(vdf)
        /\ (HasNull(vdf, "max_supply") /\ Offending(vdf) = {})
              => (vout = Returned /\ vwarned = {"max_supply"})

C9_Witness ==
    /\ vout = Raised("ValueError")
    /\ Cardinality(Offending(vdf)) >= 2
    /\ Len(vissues) >= 2
    /\ HasNull(vdf, "max_supply")

\* ------------------------------------------------------------------------
\* etl.py 152-188: transform_crypto_data
\* ------------------------------------------------------------------------
Window == 7

\* a record of the provider's response.  last_updated is the time its text
\* parses to, NaN when absent, BadNum when the text is no timestamp.
RawRow(id, name, price, maxSupply, lastUpdated) ==
    [id |-> id, symbol |-> "sym", name |-> name, current_price |-> price,
     market_cap |-> 10, total_volume |-> 5, high_24h |-> 3, low_24h |-> 1,
     price_change_percentage_24h |-> 0, circulating_supply |-> 7,
     max_supply |-> maxSupply, last_updated |-> lastUpdated]

\* df[list(columns.keys())].rename(columns=columns)
Rename(r) ==
    [id |-> r.id, symbol |-> r.symbol, name |-> r.name, price_usd |-> r.current_price,
     market_cap |-> r.market_cap, volume_24h |-> r.total_volume, high_24h |-> r.high_24h,
     low_24h |-> r.low_24h, price_change_24h_pct |-> r.price_change_percentage_24h,
     circulating_supply |-> r.circulating_supply, max_supply |-> r.max_supply,
     last_updated |-> r.last_updated]

\* the rows df.dropna(subset=["id", "symbol", "name", "price_usd"]) keeps
Essential(r) ==
    /\ r.id # NullStr
    /\ r.symbol # NullStr
    /\ r.name # NullStr
    /\ r.price_usd # NaN

\* pd.to_datetime(..., errors="coerce"): what does not parse becomes NaT
to_datetime(t) == IF t = BadNum THEN NaN ELSE t

\* order of the id strings
IdRank(id) == IF id = "bitcoin" THEN 1 ELSE IF id = "ethereum" THEN 2 ELSE 3

\* a sorts strictly before b under sort_values(["id", "last_updated"]), NaT last
SortsBefore(a, b) ==
    \/ IdRank(a.id) < IdRank(b.id)
    \/ /\ a.id = b.id
       /\ a.last_updated # NaN
       /\ (b.last_updated = NaN \/ a.last_updated < b.last_updated)

\* r put into the sorted rows behind every row it does not sort before
InsertRow(rows, r) ==
    LET k == Cardinality({i \in 1..Len(rows) : ~SortsBefore(r, rows[i])})
    IN  SubSeq(rows, 1, k) \o <<r>> \o SubSeq(rows, k + 1, Len(rows))

RECURSIVE sort_values(_)
sort_values(rows) ==
    IF rows = <<>> THEN <<>>
    ELSE InsertRow(sort_values(SubSeq(rows, 1, Len(rows) - 1)), rows[Len(rows)])

\* the rows up to i, of whatever id
GroupUpTo_AllIds(rows, i) == 1..i

\* positions of the rows of the group of row i, up to i
GroupUpTo(rows, i) == {j \in 1..i : rows[j].id = rows[i].id}

\* the last Window positions of the group of row i
WindowOf(rows, i) ==
    {j \in GroupUpTo(rows, i) : Cardinality({k \in GroupUpTo(rows, i) : k > j}) < Window}

RECURSIVE SumPrices(_, _)
SumPrices(rows, js) ==
    IF js = {} THEN 0
    ELSE LET j == CHOOSE x \in js : TRUE
         IN  rows[j].price_usd + SumPrices(rows, js \ {j})

\* x.rolling(window=7, min_periods=1).mean() within the group, as sum / count
RollingAvg(rows, i) == <<SumPrices(rows, WindowOf(rows, i)), Cardinality(WindowOf(rows, i))>>

\* groupby("id")["price_usd"].pct_change() * 100, as a ratio; the first row
\* of a group has none
PctChange(rows, i) ==
    LET before == GroupUpTo(rows, i) \ {i}
    IN  IF before = {} THEN NoRatio
        ELSE LET j == CHOOSE x \in before : \A y \in before : y <= x
             IN  <<(rows[i].price_usd - rows[j].price_usd) * 100, rows[j].price_usd>>

WithFeatures(rows, i) ==
    [c \in AllColumns |->
        IF c = "rolling_avg_7d" THEN RollingAvg(rows, i)
        ELSE IF c = "daily_price_change_pct" THEN PctChange(rows, i)
        ELSE rows[i][c]]

\* the DataFrame transform_crypto_data returns for a snapshot with records
transform_crypto_data(snapshot) ==
    LET renamed == [i \in 1..Len(snapshot) |-> Rename(snapshot[i])]
        kept == SelectSeq(renamed, Essential)
        parsed == [i \in 1..Len(kept) |->
                      [kept[i] EXCEPT !.last_updated = to_datetime(kept[i].last_updated)]]
        sorted == sort_values(parsed)
    IN  [i \in 1..Len(sorted) |-> WithFeatures(sorted, i)]

\* ------------------------------------------------------------------------
\* etl.py 424 and 449/456: df.to_csv(output_path) read back by pd.read_csv
\* ------------------------------------------------------------------------
\* texts pd.read_csv takes for a missing value
NaTexts == {"NA", "None"}

\* the text to_csv writes for a timestamp
TimeText(t) ==
    IF t = 1 THEN "2024-01-01 00:00:00+00:00"
    ELSE IF t = 2 THEN "2024-01-02 00:00:00+00:00"
    ELSE "2024-01-03 00:00:00+00:00"

ReadText(x) == IF x \in NaTexts THEN NullStr ELSE x

read_csv(d) ==
    [i \in 1..Len(d) |->
        [c \in AllColumns |->
            IF c = "last_updated"
            THEN IF d[i][c] = NaN THEN NullStr ELSE TimeText(d[i][c])
            ELSE IF c \in TextColumns THEN ReadText(d[i][c])
            ELSE d[i][c]]]

\* ------------------------------------------------------------------------
\* One run over a raw snapshot: transform, validate, load
\* ------------------------------------------------------------------------
Times == {1, 2}

RawRows ==
    {RawRow("bitcoin", "Bitcoin", p, 21, t) : p \in Prices, t \in Times} \cup
    {RawRow("ethereum", "Ethereum", 1, NaN, 1),
     RawRow("bitcoin", "Bitcoin", NaN, 21, 1),
     RawRow("ethereum", NullStr, 1, 21, 1),
     RawRow("ethereum", "NA", 2, 21, 1),
     RawRow("bitcoin", "Bitcoin", 2, 21, BadNum)}

RawSnapshots == SeqsUpTo(RawRows, MaxRows)

\* transform --input_path --output_path: an empty response has no columns
\* to select, and df[list(columns.keys())] raises KeyError
TransformBody ==
    /\ epc = "start"
    /\ \E snapshot \in RawSnapshots :
         /\ raw' = snapshot
         /\ IF snapshot = <<>>
            THEN /\ epc' = "failed"
                 /\ UNCHANGED <<cleaned, csv>>
            ELSE /\ epc' = "transformed"
                 /\ cleaned' = transform_crypto_data(snapshot)
                 /\ csv' = read_csv(transform_crypto_data(snapshot))
    /\ UNCHANGED <<storeVars, wrapVars, fetchVars, validateVars>>
    /\ UNCHANGED trVars
    /\ UNCHANGED backoffVars
    /\ UNCHANGED anomVars
    /\ UNCHANGED dagVars

\* validate csv_path: pd.read_csv and validate_data
ValidateBody ==
    /\ epc = "transformed"
    /\ epc' = "validated"
    /\ vdf' = csv
    /\ vissues' = CollectIssues(csv)
    /\ vwarned' = MissingWarnings(csv)
    /\ vout' = ValidateOutcome(CollectIssues(csv))
    /\ UNCHANGED <<raw, cleaned, csv>>
    /\ UNCHANGED <<storeVars, wrapVars, fetchVars>>
    /\ UNCHANGED trVars
    /\ UNCHANGED backoffVars
    /\ UNCHANGED anomVars
    /\ UNCHANGED dagVars

\* load csv_path, on the artifact of this run
LoadArtifact ==
    /\ epc = "validated"
    /\ epc' = "loading"
    /\ LoadCallOn({csv})
    /\ UNCHANGED <<raw, cleaned, csv>>
    /\ UNCHANGED <<fetchVars, validateVars>>
    /\ UNCHANGED trVars
    /\ UNCHANGED backoffVars
    /\ UNCHANGED anomVars
    /\ UNCHANGED dagVars

InitRun ==
    /\ StoreInit
    /\ WrapIdle
    /\ webhook = FALSE
    /\ FetchIdle
    /\ jsonErrIsRequestException = TRUE
    /\ ValidateIdle
    /\ RunIdle
    /\ DagIdle
    /\ TrIdle
    /\ BackoffIdle
    /\ AnomIdle

NextRun ==
    \/ TransformBody
    \/ ValidateBody
    \/ LoadArtifact
    \/ SessionDelete
    \/ CommitDelete
    \/ BuildRecords
    \/ BulkSaveObjects
    \/ CommitInsert
    \/ LoadReturn

SpecRun == InitRun /\ [][NextRun]_vars

\* a snapshot of complete records in which every id occurs once
EveryIdOnce(snapshot) ==
    /\ snapshot # <<>>
    /\ \A i, j \in 1..Len(snapshot) : snapshot[i].id = snapshot[j].id => i = j
    /\ \A i \in 1..Len(snapshot) :
         /\ Essential(Rename(snapshot[i]))
         /\ snapshot[i].name \notin NaTexts
         /\ snapshot[i].max_supply # NaN
         /\ snapshot[i].last_updated \in Times

\* C8: on a snapshot in which every id occurs once, transform gives one row
\* per record with rolling_avg_7d equal to price_usd and no
\* daily_price_change_pct, validate of the artifact read back returns, and
\* a load that returns leaves the table with exactly the rows of the artifact.
C8_EndToEnd ==
    (EveryIdOnce(raw) /\ epc \in {"transformed", "validated", "loading"}) =>
        /\ Len(cleaned) = Len(raw)
        /\ \A i \in 1..Len(cleaned) :
             /\ cleaned[i].rolling_avg_7d = <<cleaned[i].price_usd, 1>>
             /\ cleaned[i].daily_price_change_pct = NoRatio
        /\ epc \in {"validated", "loading"} => vout = Returned
        /\ didReplace => committed = RowSet(RecordsOf(csv))

\* ------------------------------------------------------------------------
\* etl.py 336-345 and 459-469: detect_anomalies and the anomalies operation
\* ------------------------------------------------------------------------
\* str.lower()
Lower(x) ==
    IF x \in {"Bitcoin", "BITCOIN", "bitcoin"} THEN "bitcoin"
    ELSE IF x \in {"Ethereum", "ethereum"} THEN "ethereum"
    ELSE IF x \in {"Dogecoin", "dogecoin"} THEN "dogecoin"
    ELSE x

\* df['name'].str.lower() == coin_name.lower(); a missing name compares unequal
NameMatches(row, coin_name) == row.name # NullStr /\ Lower(row.name) = Lower(coin_name)

\* the .str accessor raises AttributeError on a column that is not of strings
StrAccessorFails(d) == Dtype(d, "name") # "object"

\* the time a text of the last_updated column parses to (parse_dates)
TimeOf(x) == IF x = TimeText(1) THEN 1 ELSE IF x = TimeText(2) THEN 2 ELSE 3

\* r put behind every row of the sorted rows that is not later than it
InsertByTime(rows, r) ==
    LET k == Cardinality({i \in 1..Len(rows) : TimeOf(rows[i].last_updated) <= TimeOf(r.last_updated)})
    IN  SubSeq(rows, 1, k) \o <<r>> \o SubSeq(rows, k + 1, Len(rows))

RECURSIVE SortByTime(_)
SortByTime(rows) ==
    IF rows = <<>> THEN <<>>
    ELSE InsertByTime(SortByTime(SubSeq(rows, 1, Len(rows) - 1)), rows[Len(rows)])

NoAnomalyResult == [called |-> TRUE, found |-> FALSE, rows |-> <<>>]

\* detect_anomalies(df, coin_name); labels: what IsolationForest.fit_predict
\* gives for the rows of the coin, 1 or -1 each
detect_anomalies(d, coin_name, labels) ==
    LET coin_df == SortByTime(SelectSeq(d, LAMBDA r : NameMatches(r, coin_name)))
    IN  IF coin_df = <<>> THEN NoAnomalyResult
        ELSE [called |-> TRUE, found |-> TRUE,
              rows |-> [i \in 1..Len(coin_df) |->
                          [last_updated |-> coin_df[i].last_updated,
                           price_usd |-> coin_df[i].price_usd, anomaly |-> labels[i]]]]

AnomalyRows ==
    {DfRow("bitcoin", "Bitcoin", 1, 10, 21, TimeText(2), NoRatio),
     DfRow("bitcoin", "Bitcoin", 2, 10, 21, TimeText(1), NoRatio),
     DfRow("ethereum", NullStr, 1, 10, 21, TimeText(1), NoRatio),
     DfRow("bitcoin", "42", 1, 10, 21, TimeText(1), NoRatio)}

AnomalyTables == SeqsUpTo(AnomalyRows, MaxRows)
CoinNames == {"BITCOIN", "Dogecoin"}

\* the rows of d that have the name, whatever the case
MatchCount(d, coin_name) == Len(SelectSeq(d, LAMBDA r : NameMatches(r, coin_name)))

\* anomalies(csv_path, coin_name): pd.read_csv, detect_anomalies, and the
\* result written to <coin_name>_anomalies.csv unless it is None
AnomaliesCall ==
    /\ calls < MaxCalls
    /\ calls' = calls + 1
    /\ \E d \in AnomalyTables, coin_name \in CoinNames, fileOk \in BOOLEAN,
          w1 \in BOOLEAN, w2 \in BOOLEAN, postOk \in BOOLEAN :
       \E labels \in [1..MatchCount(d, coin_name) -> {1, -1}] :
         /\ anomCoin' = coin_name
         /\ filesBefore' = anomFiles
         /\ IF ~fileOk
            THEN /\ anomDf' = <<>>
                 /\ anomOut' = [called |-> FALSE, found |-> FALSE, rows |-> <<>>]
                 /\ UNCHANGED anomFiles
                 /\ Stage("anomalies", Raised("FileNotFoundError"), w1, w2, postOk)
            ELSE IF StrAccessorFails(d)
            THEN /\ anomDf' = d
                 /\ anomOut' = [called |-> TRUE, found |-> FALSE, rows |-> <<>>]
                 /\ UNCHANGED anomFiles
                 /\ Stage("anomalies", Raised("AttributeError"), w1, w2, postOk)
            ELSE /\ anomDf' = d
                 /\ anomOut' = detect_anomalies(d, coin_name, labels)
                 /\ anomFiles' = IF detect_anomalies(d, coin_name, labels).found
                                 THEN anomFiles \cup {coin_name} ELSE anomFiles
                 /\ Stage("anomalies", Returned, w1, w2, postOk)
    /\ UNCHANGED outsideAnomalies

InitAnomalies ==
    /\ StoreInit
    /\ WrapIdle
    /\ webhook \in BOOLEAN
    /\ FetchIdle
    /\ jsonErrIsRequestException = TRUE
    /\ ValidateIdle
    /\ RunIdle
    /\ DagIdle
    /\ TrIdle
    /\ BackoffIdle
    /\ AnomIdle

SpecAnomalies == InitAnomalies /\ [][AnomaliesCall]_vars

\* no row of the table the anomalies operation read has the name asked for
NoMatch == \A i \in 1..Len(anomDf) : Lower(anomDf[i].name) # Lower(anomCoin)

\* C13: when detect_anomalies is called with a name that no row has,
\* whatever the case of the letters, it returns None, and the anomalies
\* operation returns to its caller, is recorded as success, posts nothing
\* to Slack and writes no <coin>_anomalies.csv.
C13_AbsentEntityIsSoft ==
    (lastStep = "anomalies" /\ anomOut.called /\ NoMatch) =>
        /\ ~anomOut.found
        /\ bodyOut = Returned
        /\ result = Returned
        /\ lineage = Append(logBefore, LineageEntry("anomalies", "success", NoError))
        /\ slackPosts = postsBefore
        /\ anomFiles = filesBefore


\* ------------------------------------------------------------------------
\* dags/crypto_etl_dag.py: the daily DAG extract >> transform >> validate >> load
\* ------------------------------------------------------------------------
\* default_args['retries']
Retries == 1

\* extract >> transform >> validate >> load
TaskOrder == <<"extract", "transform", "validate", "load">>
Tasks == {TaskOrder[i] : i \in 1..Len(TaskOrder)}
TaskRank(t) == CHOOSE i \in 1..Len(TaskOrder) : TaskOrder[i] = t
Upstream(t) == {u \in Tasks : TaskRank(u) < TaskRank(t)}

\* the number of runs the scheduler has triggered
RunsStarted == Len(SelectSeq(started, LAMBDA t : t = "run"))
MaxRuns == 2

\* the scheduler creates the run of the day: every task instance is new
DagRun ==
    /\ RunsStarted < MaxRuns
    /\ \A t \in Tasks : tstate[t] \in {"none", "success", "failed", "upstream_failed"}
    /\ started # <<>> => \A t \in Tasks : tstate[t] # "none"
    /\ tstate' = [t \in Tasks |-> "scheduled"]
    /\ tries' = [t \in Tasks |-> 0]
    /\ started' = Append(started, "run")
    /\ UNCHANGED artifactValid
    /\ UNCHANGED outsideDag

\* a try of task t starts: trigger rule all_success, or the retry of a
\* task that is up for retry after retry_delay
TaskStart(t) ==
    /\ tstate[t] \in {"scheduled", "up_for_retry"}
    /\ \A u \in Upstream(t) : tstate[u] = "success"
    /\ tstate' = [tstate EXCEPT ![t] = "running"]
    /\ tries' = [tries EXCEPT ![t] = @ + 1]
    /\ started' = Append(started, t)
    /\ UNCHANGED artifactValid
    /\ UNCHANGED outsideDag

\* the state of a task whose try failed: it is retried while tries remain
AfterFailure(n) == IF n <= Retries THEN "up_for_retry" ELSE "failed"

\* the bash_command of task t exits; ok: with status 0.  The DAG sees the
\* exit status only.  validate reads the artifact transform wrote in this
\* run, so every try of it ends the same way.
TaskExit(t) ==
    /\ tstate[t] = "running"
    /\ \E ok \in BOOLEAN, valid \in BOOLEAN :
         /\ t = "validate" => ok = artifactValid
         /\ artifactValid' = IF t = "transform" /\ ok THEN valid ELSE artifactValid
         /\ tstate' = [tstate EXCEPT ![t] = IF ok THEN "success" ELSE AfterFailure(tries[t])]
    /\ UNCHANGED <<tries, started>>
    /\ UNCHANGED outsideDag

\* a task below a failed task is never run
UpstreamFailed(t) ==
    /\ tstate[t] = "scheduled"
    /\ \E u \in Upstream(t) : tstate[u] \in {"failed", "upstream_failed"}
    /\ tstate' = [tstate EXCEPT ![t] = "upstream_failed"]
    /\ UNCHANGED <<tries, started, artifactValid>>
    /\ UNCHANGED outsideDag

ExtractTask == TaskStart("extract") \/ TaskExit("extract")
TransformTask == TaskStart("transform") \/ TaskExit("transform") \/ UpstreamFailed("transform")
ValidateTask == TaskStart("validate") \/ TaskExit("validate") \/ UpstreamFailed("validate")
LoadTask == TaskStart("load") \/ TaskExit("load") \/ UpstreamFailed("load")

InitDag ==
    /\ StoreInit
    /\ WrapIdle
    /\ webhook = FALSE
    /\ FetchIdle
    /\ jsonErrIsRequestException = TRUE
    /\ ValidateIdle
    /\ RunIdle
    /\ DagIdle
    /\ TrIdle
    /\ BackoffIdle
    /\ AnomIdle

NextDag ==
    \/ DagRun
    \/ ExtractTask
    \/ TransformTask
    \/ ValidateTask
    \/ LoadTask

SpecDag == InitDag /\ [][NextDag]_vars

\* the starts of the current run
RunStarts ==
    LET last == CHOOSE i \in 0..Len(started) :
                    /\ i = 0 \/ started[i] = "run"
                    /\ \A j \in (i + 1)..Len(started) : started[j] # "run"
    IN  SubSeq(started, last + 1, Len(started))

\* C11: in a run the tries start in the order extract, transform,
\* validate, load, each after the task before it succeeded; validate is
\* tried once only, and after its failure load is not started.
C11_ValidateGatesLoad ==
    /\ \A i, j \in 1..Len(RunStarts) :
         i < j => TaskRank(RunStarts[i]) <= TaskRank(RunStarts[j])
    /\ \A t \in Tasks : tries[t] > 0 => \A u \in Upstream(t) : tstate[u] = "success"
    /\ tries["validate"] <= 1
    /\ tstate["validate"] \in {"failed", "up_for_retry"} => tries["load"] = 0

\* ------------------------------------------------------------------------
\* Properties of the lineage log
\* ------------------------------------------------------------------------
IsPrefix(a, b) == Len(a) <= Len(b) /\ SubSeq(b, 1, Len(a)) = a
LastEntry == lineage[Len(lineage)]
StatusOf(out) == IF out.kind = "return" THEN "success" ELSE "error"

C14_DoublingFromFour ==
    /\ Len(delays) <= 4
    /\ \A k \in 1..Len(delays) : delays[k] = <<4, 8, 10, 10>>[k]

\* C14 amended: the delay after failed attempt k is 2^(k-1), or 2^k with an
\* older tenacity, kept between 4 and 10: the delays are 4, 4, 4, 8, or
\* 4, 4, 8, 10, never below 4, never above 10 and never decreasing.
C14_ClampedBackoff ==
    /\ Len(delays) <= 4
    /\ Len(delays) = IF fpc = "attempt" THEN Len(outcomes)
                     ELSE IF fres = Raised("RetryError") THEN 4
                     ELSE Max(Len(outcomes) - 1, 0)
    /\ \A k \in 1..Len(delays) :
         /\ delays[k] >= 4
         /\ delays[k] <= 10
         /\ delays[k] = IF expFromZero THEN <<4, 4, 4, 8>>[k] ELSE <<4, 4, 8, 10>>[k]
         /\ k > 1 => delays[k - 1] <= delays[k]

C14_Witness ==
    /\ Len(delays) = 4
    /\ fres = Raised("RetryError")

\* ------------------------------------------------------------------------
\* transform_crypto_data on repeated observations of the same ids
\* ------------------------------------------------------------------------
MaxObs == 8           \* records of one snapshot given to the transform

\* the records of the snapshots: two prices of bitcoin ("b1", "b2"), one of
\* ethereum ("e5"), and a bitcoin record without current_price ("bx").
\* the time of the record at position i: all different, not in file order
ObsTime(i) == (3 * i) % 11

ObsRow(kind, i) ==
    IF kind = "b1" THEN RawRow("bitcoin", "Bitcoin", 1, 21, ObsTime(i))
    ELSE IF kind = "b2" THEN RawRow("bitcoin", "Bitcoin", 2, 21, ObsTime(i))
    ELSE IF kind = "e5" THEN RawRow("ethereum", "Ethereum", 5, NaN, ObsTime(i))
    ELSE RawRow("bitcoin", "Bitcoin", NaN, 21, ObsTime(i))

\* the snapshot with records of these kinds
ObsSnapshot(kinds) == [i \in 1..Len(kinds) |-> ObsRow(kinds[i], i)]

\* transform_crypto_data(raw_data); without records there are no columns
\* to select and df[list(columns.keys())] raises KeyError
ApplyTransform ==
    /\ tpc = "in"
    /\ IF tin = <<>>
       THEN /\ tpc' = "raised"
            /\ UNCHANGED tout
       ELSE /\ tpc' = "done"
            /\ tout' = transform_crypto_data(tin)
    /\ UNCHANGED tin
    /\ UNCHANGED <<storeVars, wrapVars, fetchVars, validateVars, runVars, dagVars, anomVars, backoffVars>>

InitTransform ==
    /\ StoreInit
    /\ WrapIdle
    /\ webhook = FALSE
    /\ FetchIdle
    /\ jsonErrIsRequestException = TRUE
    /\ ValidateIdle
    /\ RunIdle
    /\ DagIdle
    /\ AnomIdle
    /\ BackoffIdle
    /\ tpc = "in"
    /\ \E n \in 0..MaxObs : \E kinds \in [1..n -> {"b1", "b2", "e5", "bx"}] : tin = ObsSnapshot(kinds)
    /\ tout = <<>>

SpecTransform == InitTransform /\ [][ApplyTransform]_vars

\* the records of tin that miss none of id, symbol, name, current_price
Complete(p) ==
    /\ tin[p].id # NullStr
    /\ tin[p].symbol # NullStr
    /\ tin[p].name # NullStr
    /\ tin[p].current_price # NaN
KeptRecords == {p \in 1..Len(tin) : Complete(p)}

\* the observations of the id of record p that are not later than p, and
\* the latest seven of them
ObsUpTo(p) ==
    {q \in KeptRecords : tin[q].id = tin[p].id /\ tin[q].last_updated <= tin[p].last_updated}
LatestSeven(p) ==
    {q \in ObsUpTo(p) :
        Cardinality({r \in ObsUpTo(p) : tin[r].last_updated > tin[q].last_updated}) < 7}

RECURSIVE PriceSum(_)
PriceSum(ps) ==
    IF ps = {} THEN 0
    ELSE LET p == CHOOSE x \in ps : TRUE IN tin[p].current_price + PriceSum(ps \ {p})

\* row i of tout is record p of tin
RowOf(i, p) ==
    /\ tout[i].id = tin[p].id
    /\ tout[i].last_updated = tin[p].last_updated
    /\ tout[i].price_usd = tin[p].current_price

\* C15: the rows of the result are exactly the records that miss none of
\* id, symbol, name, price_usd; within an id they are in ascending
\* last_updated; rolling_avg_7d of a row is the mean price of its record
\* and of up to 6 records before it of the same id.
C15_DropAndRollingMean ==
    tpc = "done" =>
        /\ Len(tout) = Cardinality(KeptRecords)
        /\ \A p \in KeptRecords : \E i \in 1..Len(tout) : RowOf(i, p)
        /\ \A i, j \in 1..Len(tout) :
             (i < j /\ tout[i].id = tout[j].id) => tout[i].last_updated < tout[j].last_updated
        /\ \A i \in 1..Len(tout) : \A p \in KeptRecords :
             RowOf(i, p) =>
                tout[i].rolling_avg_7d = <<PriceSum(LatestSeven(p)), Cardinality(LatestSeven(p))>>

C15_Witness ==
    /\ tpc = "done"
    /\ \E i \in 1..Len(tout) : \E p \in KeptRecords :
         /\ RowOf(i, p)
         /\ Cardinality(ObsUpTo(p)) = 8
         /\ tout[i].rolling_avg_7d[2] = 7
         /\ tout[i].rolling_avg_7d[1] \notin {7, 14}

====
